---------------------------- MODULE Spec2Model ----------------------------
(***************************************************************************)
(* A model of SMCPy's particle population (smcpy/smc/particles.py) and of  *)
(* its initializer (smcpy/smc/initializer.py).                             *)
(*                                                                         *)
(* Numbers.  A float is a pair <<n, d>> of integers: the rational n/d in   *)
(* lowest terms when d > 0, and +inf, -inf, nan when d = 0 (n = 1, -1, 0). *)
(* Arithmetic on them is exact, and division by zero gives inf or nan as   *)
(* numpy's float64 does (a warning, no exception).                         *)
(*                                                                         *)
(* A log-domain float is a triple <<k, n, d>> standing for                 *)
(* k * BIG + ln(n/d), where BIG is a magnitude beyond the range of         *)
(* float64's exp (exp(x) = 0 for x < -745.2, exp(x) = inf for x > 709.8):  *)
(* np.exp of it is n/d when k = 0, 0.0 when k < 0 and inf when k > 0.      *)
(* <<0, 0, 1>> is -inf (ln 0), <<0, 1, 0>> is +inf and <<0, 0, 0>> is nan. *)
(***************************************************************************)
EXTENDS Integers, Sequences, FiniteSets, TLC

VARIABLES initializer, kernel_calls, particles, op, args, ret, raised, warned

vars == <<initializer, kernel_calls, particles, op, args, ret, raised, warned>>

-----------------------------------------------------------------------------
(* Bounds of the model *)

MaxParticles == 3
MaxTotal == 10
MaxSize == 3
MaxRanks == 2

-----------------------------------------------------------------------------
(* float64 arithmetic, exact within range *)

Abs(x) == IF x < 0 THEN -x ELSE x

Sign(x) == IF x < 0 THEN -1 ELSE IF x > 0 THEN 1 ELSE 0

RECURSIVE GCD(_, _)
GCD(a, b) == IF b = 0 THEN a ELSE GCD(b, a % b)

Norm(n, d) ==
    IF d = 0 THEN <<Sign(n), 0>>
    ELSE LET g == GCD(Abs(n), Abs(d))
             s == Sign(d)
         IN  <<(s * n) \div g, (s * d) \div g>>

NaN == <<0, 0>>
Inf == <<1, 0>>
Zero == <<0, 1>>
One == <<1, 1>>

Float(i) == <<i, 1>>

IsFinite(x) == x[2] # 0

FMul(x, y) == Norm(x[1] * y[1], x[2] * y[2])

FDiv(x, y) == Norm(x[1] * y[2], x[2] * y[1])

FAdd(x, y) ==
    IF x[2] = 0 /\ y[2] = 0 THEN (IF x = y THEN x ELSE NaN)
    ELSE Norm(x[1] * y[2] + y[1] * x[2], x[2] * y[2])

FNeg(x) == <<-x[1], x[2]>>

FSub(x, y) == FAdd(x, FNeg(y))

\* x < y on floats; any comparison with nan is false
FLess(x, y) ==
    /\ x # NaN /\ y # NaN
    /\ IF x[2] = 0 \/ y[2] = 0
       THEN (IF x[2] = 0 /\ y[2] = 0 THEN x[1] < y[1]
             ELSE IF x[2] = 0 THEN x[1] < 0 ELSE y[1] > 0)
       ELSE x[1] * y[2] < y[1] * x[2]

FLeq(x, y) == (x = y /\ x # NaN) \/ FLess(x, y)

RECURSIVE FSum(_)
FSum(s) == IF s = <<>> THEN Zero ELSE FAdd(Head(s), FSum(Tail(s)))

-----------------------------------------------------------------------------
(* log-domain floats *)

LNaN == <<0, 0, 0>>
LNegInf == <<0, 0, 1>>
LPosInf == <<0, 1, 0>>

LIsFinite(l) == l[2] > 0 /\ l[3] > 0

\* np.log
Log(x) ==
    IF x = NaN \/ x[1] < 0 THEN LNaN
    ELSE IF x = Inf THEN LPosInf
    ELSE IF x[1] = 0 THEN LNegInf
    ELSE <<0, x[1], x[2]>>

\* np.exp, with float64's underflow to 0.0 and overflow to inf
Exp(l) ==
    IF l = LNaN THEN NaN
    ELSE IF l = LPosInf THEN Inf
    ELSE IF l = LNegInf THEN Zero
    ELSE IF l[1] < 0 THEN Zero
    ELSE IF l[1] > 0 THEN Inf
    ELSE <<l[2], l[3]>>

\* a - b in the log domain
LSub(a, b) ==
    IF a = LNaN \/ b = LNaN THEN LNaN
    ELSE IF ~LIsFinite(a) /\ ~LIsFinite(b) THEN (IF a = b THEN LNaN ELSE a)
    ELSE IF ~LIsFinite(a) THEN a
    ELSE IF ~LIsFinite(b) THEN (IF b = LNegInf THEN LPosInf ELSE LNegInf)
    ELSE LET q == Norm(a[2] * b[3], a[3] * b[2])
         IN  <<a[1] - b[1], q[1], q[2]>>

\* a < b in the log domain (finite operands)
LLess(a, b) ==
    \/ a[1] < b[1]
    \/ a[1] = b[1] /\ a[2] * b[3] < b[2] * a[3]

\* Python's max over the rows of a column: the first element no later one exceeds
RECURSIVE LMax(_)
LMax(s) ==
    IF Len(s) = 1 THEN s[1]
    ELSE LET m == LMax(Tail(s))
         IN  IF LLess(s[1], m) THEN m ELSE s[1]

-----------------------------------------------------------------------------
(* numpy helpers *)

Range(s) == {s[i] : i \in DOMAIN s}

\* The array f with every entry computed (a numpy array holds values, not
\* expressions)
Array(f) == f @@ <<>>

\* np.vstack(arrays).T : from P arrays of length N to N rows of length P
Transpose(arrays) ==
    [i \in 1..Len(arrays[1]) |-> [j \in 1..Len(arrays) |-> arrays[j][i]]]

\* Faulty variant: the operands swapped: log(proposal_density) - log_prior
BroadcastLSubSwapped(a, b) ==
    IF Len(a) = Len(b)
    THEN [raised |-> "none", val |-> [i \in 1..Len(a) |-> LSub(b[i], a[i])]]
    ELSE IF Len(b) = 1
    THEN [raised |-> "none", val |-> [i \in 1..Len(a) |-> LSub(b[1], a[i])]]
    ELSE IF Len(a) = 1
    THEN [raised |-> "none", val |-> [i \in 1..Len(b) |-> LSub(b[i], a[1])]]
    ELSE [raised |-> "ValueError", val |-> <<>>]

\* a - b for columns of shapes (Len(a), 1) and (Len(b), 1), under numpy's
\* broadcasting: equal lengths go elementwise, a column of one row is
\* stretched over the other, and anything else is a ValueError.
BroadcastLSub(a, b) ==
    IF Len(a) = Len(b)
    THEN [raised |-> "none", val |-> [i \in 1..Len(a) |-> LSub(a[i], b[i])]]
    ELSE IF Len(b) = 1
    THEN [raised |-> "none", val |-> [i \in 1..Len(a) |-> LSub(a[i], b[1])]]
    ELSE IF Len(a) = 1
    THEN [raised |-> "none", val |-> [i \in 1..Len(b) |-> LSub(a[1], b[i])]]
    ELSE [raised |-> "ValueError", val |-> <<>>]

-----------------------------------------------------------------------------
(* smcpy/smc/particles.py : class Particles                                 *)
(*                                                                         *)
(* A params argument is [is_dict, names, arrays]: a dict holds the arrays  *)
(* in the order of its keys.  An object is a record of the instance's      *)
(* attributes; steps lists the setters __init__ has entered, in order.     *)

NewParticles ==
    [_param_names |-> <<>>, _num_particles |-> 0, _params |-> <<>>,
     _log_likes |-> <<>>, _log_weights |-> <<>>, _weights |-> <<>>]

NoParticles == [exists |-> FALSE, self |-> NewParticles]

Returned(self, steps) == [raised |-> "none", self |-> self, steps |-> steps]

Raised(error, self, steps) == [raised |-> error, self |-> self, steps |-> steps]

\* Checks._is_dict
_is_dict(params) == params.is_dict

_set_params(self, params) ==
    IF ~_is_dict(params)
    THEN Raised("TypeError", self, <<"_set_params">>)
    ELSE LET rows == Transpose(params.arrays)
         IN  Returned([self EXCEPT !._param_names = params.names,
                                   !._params = rows,
                                   !._num_particles = Len(rows)],
                      <<"_set_params">>)
\* Faulty variant: the log-likelihoods are stored without the length check
_set_log_likes_unchecked(self, log_likes) ==
    Returned([self EXCEPT !._log_likes = log_likes], <<"_set_log_likes">>)

_set_log_likes(self, log_likes) ==
    IF Len(log_likes) # self._num_particles
    THEN Raised("ValueError", self, <<"_set_log_likes">>)
    ELSE Returned([self EXCEPT !._log_likes = log_likes], <<"_set_log_likes">>)
\* Faulty variant: the shifted weights are not divided by their sum
_normalize_log_weights_no_sum(log_weights) ==
    [i \in DOMAIN log_weights |->
        Log(Exp(LSub(log_weights[i], LMax(log_weights))))]

_normalize_log_weights(log_weights) ==
    LET m == LMax(log_weights)
        shifted_weights == [i \in DOMAIN log_weights |->
                               Exp(LSub(log_weights[i], m))]
        total == FSum(shifted_weights)
        normalized_weights == [i \in DOMAIN log_weights |->
                                  FDiv(shifted_weights[i], total)]
    IN  [i \in DOMAIN log_weights |-> Log(normalized_weights[i])]

_set_and_norm_log_weights(self, log_weights) ==
    IF Len(log_weights) # self._num_particles
    THEN Raised("ValueError", self, <<"_set_and_norm_log_weights">>)
    ELSE LET lw == _normalize_log_weights(log_weights)
         IN  Returned([self EXCEPT !._log_weights = lw,
                                   !._weights = [i \in DOMAIN lw |-> Exp(lw[i])]],
                      <<"_set_and_norm_log_weights", "_normalize_log_weights">>)

\* Particles.__init__: the three setters in order; the first to raise ends it
Particles(params, log_likes, log_weights) ==
    LET r1 == _set_params(NewParticles, params)
        r2 == _set_log_likes(r1.self, log_likes)
        r3 == _set_and_norm_log_weights(r2.self, log_weights)
    IN  IF r1.raised # "none" THEN r1
        ELSE IF r2.raised # "none"
        THEN [r2 EXCEPT !.steps = r1.steps \o r2.steps]
        ELSE [r3 EXCEPT !.steps = r1.steps \o r2.steps \o r3.steps]

SumSquaredWeights(self) ==
    FSum([i \in 1..self._num_particles |->
             FMul(self._weights[i], self._weights[i])])

\* Faulty variant: the weights are summed unsquared
compute_ess_unsquared(self) == FDiv(One, FSum(self._weights))

compute_ess(self) == FDiv(One, SumSquaredWeights(self))

\* np.sum(self.params * self.weights, axis=0)
compute_mean(self) ==
    Array([j \in DOMAIN self._param_names |->
        FSum([i \in 1..self._num_particles |->
                 FMul(Float(self._params[i][j]), self._weights[i])])])

\* self.params - means
Diff(self, means) ==
    Array([i \in 1..self._num_particles |->
        Array([j \in DOMAIN self._param_names |->
            FSub(Float(self._params[i][j]), means[j])])])

\* np.sum(self.weights * diff ** 2, axis=0) / norm
WeightedSquares(self, diff, norm) ==
    Array([j \in DOMAIN self._param_names |->
        FDiv(FSum([i \in 1..self._num_particles |->
                      FMul(self._weights[i], FMul(diff[i][j], diff[i][j]))]),
             norm)])

compute_variance(self) ==
    WeightedSquares(self, Diff(self, compute_mean(self)),
                    FSub(One, SumSquaredWeights(self)))

\* np.dot(diff.T, diff * self.weights) * norm
WeightedProducts(self, diff, norm) ==
    Array([a \in DOMAIN self._param_names |->
        Array([b \in DOMAIN self._param_names |->
            FMul(FSum([i \in 1..self._num_particles |->
                          FMul(diff[i][a], FMul(diff[i][b], self._weights[i]))]),
                 norm)])])

\* the estimate of compute_covariance, before the positive-definite check
Cov(self) ==
    WeightedProducts(self, Diff(self, compute_mean(self)),
                     FDiv(One, FSub(One, SumSquaredWeights(self))))

HasNaN(cov) == \E a \in DOMAIN cov : \E b \in DOMAIN cov[a] : cov[a][b] = NaN

\* The matrix left after eliminating the first row and column (read from the
\* lower triangle, as LAPACK's potrf does)
Schur(A) ==
    [i \in 1..(Len(A) - 1) |->
        [j \in 1..(Len(A) - 1) |->
            FSub(A[i + 1][j + 1], FDiv(FMul(A[i + 1][1], A[j + 1][1]), A[1][1]))]]

RECURSIVE CholeskySucceeds(_)
CholeskySucceeds(A) ==
    IF Len(A) = 0 THEN TRUE
    ELSE FLess(Zero, A[1][1]) /\ CholeskySucceeds(Schur(A))

\* Checks._is_positive_definite: the answers a Cholesky factorization can give.
\* What it answers on a matrix holding nan depends on the LAPACK build.
_is_positive_definite(cov) ==
    IF HasNaN(cov) THEN BOOLEAN ELSE {CholeskySucceeds(cov)}

\* np.eye(cov.shape[0]) * np.diag(cov)
ZeroOffDiagonal(cov) ==
    [a \in DOMAIN cov |->
        [b \in DOMAIN cov |->
            FMul(IF a = b THEN One ELSE Zero, cov[b][b])]]

\* Faulty variant: the estimate is returned whatever the check answered
compute_covariance_unrepaired(cov, pd) == [ret |-> cov, warned |-> ~pd]

\* compute_covariance, given the answer pd of the positive-definite check
compute_covariance(cov, pd) ==
    IF ~pd THEN [ret |-> ZeroOffDiagonal(cov), warned |-> TRUE]
    ELSE [ret |-> cov, warned |-> FALSE]


-----------------------------------------------------------------------------
(* The collaborators of the initializer                                     *)

\* The objects handed to Initializer(...): an MCMCKernel instance, and None
Kernels == {"kernel"}

Objects == Kernels \cup {"None"}

isinstance_MCMCKernel(obj) == obj \in Kernels

ParamNames == {<<"a">>, <<"a", "b">>}

ParamVals == {0, 1}

\* The sequences over S of length n
SeqsOfLen(S, n) == [1..n -> S]

\* The dicts of n particles: one array of length n per parameter name
Samples(n) ==
    UNION {{[is_dict |-> TRUE, names |-> names, arrays |-> arrays] :
               arrays \in SeqsOfLen(SeqsOfLen(ParamVals, n), Len(names))} :
           names \in ParamNames}

RECURSIVE RowCode(_)
RowCode(row) == IF row = <<>> THEN 0 ELSE Head(row) + 2 * RowCode(Tail(row))

\* The kernel is a function of the sample: its log-likelihood is
\* -(1 + code)/10 and its prior density 1/(1 + code), code numbering the row.
KernelLogLike(row) == Norm(-(1 + RowCode(row)), 10)

KernelLogPrior(row) == Log(Norm(1, 1 + RowCode(row)))

\* MCMCKernel.sample_from_prior(count): the first count of the samples the
\* kernel holds ready
sample_from_prior(pool, count) ==
    [pool EXCEPT !.arrays = [j \in DOMAIN pool.arrays |->
                                SubSeq(pool.arrays[j], 1, count)]]

\* MCMCKernel.get_log_likelihoods(samples): a column, one row per sample
get_log_likelihoods(samples) ==
    LET rows == Transpose(samples.arrays)
    IN  [i \in DOMAIN rows |-> KernelLogLike(rows[i])]

\* MCMCKernel.get_log_priors(samples): a column, one row per sample
get_log_priors(samples) ==
    LET rows == Transpose(samples.arrays)
    IN  [i \in DOMAIN rows |-> KernelLogPrior(rows[i])]

\* The proposal densities a caller passes for k samples: positive floats,
\* a different one at each position (1/2, 1/3, ...)
PDens(k) == [i \in 1..k |-> Norm(1, i + 1)]

-----------------------------------------------------------------------------
(* smcpy/smc/initializer.py : class Initializer                             *)

NoInitializer == [exists |-> FALSE, _mcmc_kernel |-> "None"]

\* Faulty variant: the setter without its isinstance check
mcmc_kernel_setter_unchecked(self, mcmc_kernel) ==
    [raised |-> "none", self |-> [self EXCEPT !._mcmc_kernel = mcmc_kernel]]

\* the mcmc_kernel property's setter
mcmc_kernel_setter(self, mcmc_kernel) ==
    IF ~isinstance_MCMCKernel(mcmc_kernel)
    THEN [raised |-> "TypeError", self |-> self]
    ELSE [raised |-> "none", self |-> [self EXCEPT !._mcmc_kernel = mcmc_kernel]]

\* Initializer.__init__
Initializer(mcmc_kernel) ==
    mcmc_kernel_setter([exists |-> TRUE, _mcmc_kernel |-> "None"], mcmc_kernel)

\* A call of a kernel method: an object that is no kernel has no such method
Call(obj, method, n) == <<obj, method, n>>

\* Faulty variant: the remainder is dropped
get_num_particles_floor_only(total, rank, size) == total \div size

\* The evenly split count of the rank: floor(total/size), and one more for
\* each of the first total mod size ranks
get_num_particles_in_partition(total, rank, size) ==
    (total \div size) + (IF rank < total % size THEN 1 ELSE 0)

\* init_particles_from_prior, with pool the samples the kernel's prior holds
init_particles_from_prior(self, num_particles, pool) ==
    LET kernel == self._mcmc_kernel
        params == sample_from_prior(pool, num_particles)
        log_likes == get_log_likelihoods(params)
        calls == <<Call(kernel, "sample_from_prior", num_particles),
                   Call(kernel, "get_log_likelihoods", Len(log_likes))>>
        log_weights == [i \in 1..num_particles |-> Log(Norm(1, num_particles))]
        made == Particles(params, log_likes, log_weights)
    IN  IF ~isinstance_MCMCKernel(kernel)
        THEN [raised |-> "AttributeError", calls |-> SubSeq(calls, 1, 1),
              log_weights |-> <<>>, particles |-> NoParticles]
        ELSE IF num_particles = 0
        THEN [raised |-> "ZeroDivisionError", calls |-> calls,
              log_weights |-> <<>>, particles |-> NoParticles]
        ELSE [raised |-> made.raised, calls |-> calls,
              log_weights |-> log_weights,
              particles |-> IF made.raised = "none"
                            THEN [exists |-> TRUE, self |-> made.self]
                            ELSE NoParticles]

init_particles_from_samples(self, samples, proposal_pdensities) ==
    LET kernel == self._mcmc_kernel
        log_likes == get_log_likelihoods(samples)
        log_priors == get_log_priors(samples)
        calls == <<Call(kernel, "get_log_likelihoods", Len(log_likes)),
                   Call(kernel, "get_log_priors", Len(log_priors))>>
        log_weights == BroadcastLSub(log_priors,
                           [i \in DOMAIN proposal_pdensities |->
                               Log(proposal_pdensities[i])])
        made == Particles(samples, log_likes, log_weights.val)
    IN  IF ~isinstance_MCMCKernel(kernel)
        THEN [raised |-> "AttributeError", calls |-> SubSeq(calls, 1, 1),
              log_weights |-> <<>>, particles |-> NoParticles]
        ELSE IF log_weights.raised # "none"
        THEN [raised |-> log_weights.raised, calls |-> calls,
              log_weights |-> <<>>, particles |-> NoParticles]
        ELSE [raised |-> made.raised, calls |-> calls,
              log_weights |-> log_weights.val,
              particles |-> IF made.raised = "none"
                            THEN [exists |-> TRUE, self |-> made.self]
                            ELSE NoParticles]


-----------------------------------------------------------------------------
(* The state machine.  args holds the inputs of the run, drawn by Init; op *)
(* is the operation that ran last and, for Initializer(...) and the        *)
(* setter, the object it was given.                                        *)

NoArgs ==
    [kind |-> "none", num_particles |-> 0, size |-> 1, rank |-> 0,
     samples |-> [is_dict |-> TRUE, names |-> <<>>, arrays |-> <<>>],
     pdens |-> <<>>, log_likes |-> <<>>, log_weights |-> <<>>]

RankSizes(max) == {rs \in (0..(max - 1)) \X (1..max) : rs[1] < rs[2]}

PriorArgs ==
    UNION {{[NoArgs EXCEPT !.kind = "prior", !.num_particles = n,
                           !.samples = pool, !.rank = rs[1], !.size = rs[2]] :
               pool \in Samples(n), rs \in RankSizes(MaxRanks)} :
           n \in 0..MaxParticles}

SamplesArgs ==
    UNION {{[NoArgs EXCEPT !.kind = "samples", !.samples = samples,
                           !.pdens = PDens(k), !.rank = rs[1], !.size = rs[2]] :
               samples \in Samples(m), k \in 1..MaxParticles,
               rs \in RankSizes(MaxRanks)} :
           m \in 1..MaxParticles}

PartitionArgs ==
    {[NoArgs EXCEPT !.kind = "partition", !.num_particles = total,
                    !.rank = rs[1], !.size = rs[2]] :
        total \in 0..MaxTotal, rs \in RankSizes(MaxSize)}

Init ==
    /\ args \in PriorArgs \cup SamplesArgs \cup PartitionArgs
    /\ initializer = NoInitializer
    /\ particles = NoParticles
    /\ kernel_calls = <<>>
    /\ op = [name |-> "start", arg |-> ""]
    /\ ret = <<>>
    /\ raised = "none"
    /\ warned = FALSE

\* initializer = Initializer(obj); a raise leaves the name bound as it was
ConstructInitializer ==
    \E obj \in Objects :
        LET r == Initializer(obj)
        IN  /\ initializer' = IF r.raised = "none" THEN r.self ELSE initializer
            /\ raised' = r.raised
            /\ op' = [name |-> "Initializer", arg |-> obj]
            /\ kernel_calls' = <<>>
            /\ ret' = <<>>
            /\ warned' = FALSE
            /\ UNCHANGED <<particles, args>>

\* initializer.mcmc_kernel = obj
SetMcmcKernel ==
    /\ initializer.exists
    /\ \E obj \in Objects :
        LET r == mcmc_kernel_setter(initializer, obj)
        IN  /\ initializer' = r.self
            /\ raised' = r.raised
            /\ op' = [name |-> "mcmc_kernel", arg |-> obj]
            /\ kernel_calls' = <<>>
            /\ ret' = <<>>
            /\ warned' = FALSE
            /\ UNCHANGED <<particles, args>>

\* particles = initializer.init_particles_from_prior(num_particles)
InitParticlesFromPrior ==
    /\ initializer.exists
    /\ args.kind = "prior"
    /\ LET r == init_particles_from_prior(initializer, args.num_particles,
                                          args.samples)
       IN  /\ particles' = r.particles
           /\ raised' = r.raised
           /\ kernel_calls' = r.calls
           /\ ret' = r.log_weights
    /\ op' = [name |-> "init_particles_from_prior", arg |-> ""]
    /\ warned' = FALSE
    /\ UNCHANGED <<initializer, args>>

\* particles = initializer.init_particles_from_samples(samples, pdens)
InitParticlesFromSamples ==
    /\ initializer.exists
    /\ args.kind = "samples"
    /\ LET r == init_particles_from_samples(initializer, args.samples, args.pdens)
       IN  /\ particles' = r.particles
           /\ raised' = r.raised
           /\ kernel_calls' = r.calls
           /\ ret' = r.log_weights
    /\ op' = [name |-> "init_particles_from_samples", arg |-> ""]
    /\ warned' = FALSE
    /\ UNCHANGED <<initializer, args>>

\* initializer.get_num_particles_in_partition(total, rank)
GetNumParticlesInPartition ==
    /\ initializer.exists
    /\ args.kind = "partition"
    /\ ret' = get_num_particles_in_partition(args.num_particles, args.rank,
                                             args.size)
    /\ op' = [name |-> "get_num_particles_in_partition", arg |-> ""]
    /\ raised' = "none"
    /\ kernel_calls' = <<>>
    /\ warned' = FALSE
    /\ UNCHANGED <<initializer, particles, args>>

Next ==
    \/ ConstructInitializer
    \/ SetMcmcKernel
    \/ InitParticlesFromPrior
    \/ InitParticlesFromSamples
    \/ GetNumParticlesInPartition

Spec == Init /\ [][Next]_vars


-----------------------------------------------------------------------------
(* The population on its own: Particles(params, log_likes, log_weights)    *)
(* and the statistics of the object it returns.                            *)

\* A params argument that is no dict (a list of arrays)
NotADict == [is_dict |-> FALSE, names |-> <<>>, arrays |-> <<<<0, 1>>>>]

\* {'a': [0, 1, 0, ...]}
OneParam(n) ==
    [is_dict |-> TRUE, names |-> <<"a">>, arrays |-> <<[i \in 1..n |-> (i + 1) % 2]>>]

\* log-likelihoods, a different one at each position (-1, -2, ...)
LogLikes(n) == [i \in 1..n |-> Float(-i)]

\* raw log-weights: 0, -ln 2, and -BIG (far below the others)
LogWeightVals == {<<0, 1, 1>>, <<0, 1, 2>>, <<-1, 1, 1>>}

OrdinaryLogWeightVals == {l \in LogWeightVals : l[1] = 0}

\* Arguments of matching lengths, over every dict of samples
MatchingArgs ==
    UNION {{[NoArgs EXCEPT !.kind = "particles", !.samples = params,
                           !.log_likes = LogLikes(n), !.log_weights = lw] :
               params \in Samples(n),
               lw \in SeqsOfLen(OrdinaryLogWeightVals, n)} :
           n \in 1..MaxParticles}

\* Arguments of every combination of lengths, over every vector of log-weights
AnyLengthArgs ==
    {[NoArgs EXCEPT !.kind = "particles", !.samples = params,
                    !.log_likes = LogLikes(l), !.log_weights = lw] :
        params \in {NotADict} \cup {OneParam(n) : n \in 1..MaxParticles},
        l \in 0..MaxParticles,
        lw \in UNION {SeqsOfLen(LogWeightVals, w) : w \in 0..MaxParticles}}

InitParticles ==
    /\ args \in MatchingArgs \cup AnyLengthArgs
    /\ initializer = NoInitializer
    /\ particles = NoParticles
    /\ kernel_calls = <<>>
    /\ op = [name |-> "start", arg |-> ""]
    /\ ret = <<>>
    /\ raised = "none"
    /\ warned = FALSE

\* particles = Particles(params, log_likes, log_weights)
ConstructParticles ==
    /\ args.kind = "particles"
    /\ op.name = "start"
    /\ LET made == Particles(args.samples, args.log_likes, args.log_weights)
       IN  /\ particles' = IF made.raised = "none"
                           THEN [exists |-> TRUE, self |-> made.self]
                           ELSE NoParticles
           /\ raised' = made.raised
           /\ ret' = made.steps
    /\ op' = [name |-> "Particles", arg |-> ""]
    /\ warned' = FALSE
    /\ UNCHANGED <<initializer, kernel_calls, args>>

\* Faulty variant: the method squares the stored weights in place
\* (self._weights **= 2) before it returns
ReturnsAfterSquaringWeights(name, arg, value, warning) ==
    /\ op' = [name |-> name, arg |-> arg]
    /\ ret' = value
    /\ warned' = warning
    /\ raised' = "none"
    /\ particles' = [particles EXCEPT !.self._weights =
                         Array([i \in DOMAIN @ |-> FMul(@[i], @[i])])]
    /\ UNCHANGED <<initializer, kernel_calls, args>>

\* A method that returns value and assigns no attribute of self
Returns(name, arg, value, warning) ==
    /\ op' = [name |-> name, arg |-> arg]
    /\ ret' = value
    /\ warned' = warning
    /\ raised' = "none"
    /\ UNCHANGED <<initializer, kernel_calls, particles, args>>

\* package_for_user: the array as it is under package=False, and else a dict
\* from the parameter names to its entries
package_for_user(self, outputs, package) ==
    IF package = "False" THEN outputs
    ELSE [names |-> self._param_names, values |-> outputs]

ComputeEss ==
    /\ particles.exists
    /\ Returns("compute_ess", "", compute_ess(particles.self), FALSE)

ComputeMean ==
    /\ particles.exists
    /\ \E package \in {"", "False"} :
        Returns("compute_mean", package,
                package_for_user(particles.self, compute_mean(particles.self),
                                 package), FALSE)

ComputeVariance ==
    /\ particles.exists
    /\ \E package \in {"", "False"} :
        Returns("compute_variance", package,
                package_for_user(particles.self, compute_variance(particles.self),
                                 package), FALSE)

\* The largest k with k * k dividing m (m >= 1), searched upward from k
RECURSIVE SquareFactor(_, _, _)
SquareFactor(m, k, best) ==
    IF k * k > m THEN best
    ELSE SquareFactor(m, k + 1, IF m % (k * k) = 0 THEN k ELSE best)

\* np.sqrt of a float, as the surd <<p, q, r>> = (p/q) * sqrt(r) with p/q in
\* lowest terms and r square-free: nan for nan and for a negative number,
\* inf for inf, and for n/d = (s^2 * a)/(t^2 * b) the surd (s/(t*b)) * sqrt(a*b)
sqrt(x) ==
    IF x = NaN \/ FLess(x, Zero) THEN <<0, 0, 1>>
    ELSE IF x = Inf THEN <<1, 0, 1>>
    ELSE IF x[1] = 0 THEN <<0, 1, 1>>
    ELSE LET s == SquareFactor(x[1], 1, 1)
             t == SquareFactor(x[2], 1, 1)
             a == x[1] \div (s * s)
             b == x[2] \div (t * t)
             pq == Norm(s, t * b)
         IN  <<pq[1], pq[2], a * b>>

\* compute_std_dev, before packaging
compute_std_dev(self) ==
    LET var == compute_variance(self)
    IN  Array([j \in DOMAIN var |-> sqrt(var[j])])

\* copy: deepcopy builds a new object whose every attribute equals self's
copy(self) == [attr \in DOMAIN self |-> self[attr]]

ComputeStdDev ==
    /\ particles.exists
    /\ \E package \in {"", "False"} :
        Returns("compute_std_dev", package,
                package_for_user(particles.self, compute_std_dev(particles.self),
                                 package), FALSE)

Copy ==
    /\ particles.exists
    /\ Returns("copy", "", copy(particles.self), FALSE)

ComputeCovariance ==
    /\ particles.exists
    /\ \E cov \in {Cov(particles.self)} :
        \E pd \in _is_positive_definite(cov) :
            LET r == compute_covariance(cov, pd)
            IN  Returns("compute_covariance", "", r.ret, r.warned)

NextParticles ==
    \/ ConstructParticles
    \/ ComputeEss
    \/ ComputeMean
    \/ ComputeVariance
    \/ ComputeStdDev
    \/ ComputeCovariance
    \/ Copy

SpecParticles == InitParticles /\ [][NextParticles]_vars


-----------------------------------------------------------------------------
(* Properties                                                               *)

\* The rows of a dict of samples, one per particle
Rows(samples) == Transpose(samples.arrays)

RECURSIVE SumTo(_, _)
SumTo(n, f) == IF n = 0 THEN 0 ELSE f[n] + SumTo(n - 1, f)

\* The counts the ranks 0..size-1 get of total, as a sequence (rank r at r+1)
PartitionCounts(total, size) ==
    [r \in 1..size |-> get_num_particles_in_partition(total, r - 1, size)]

C2_NonKernelRejected ==
    /\ initializer.exists => initializer._mcmc_kernel \in Kernels
    /\ (op.name = "Initializer" /\ op.arg \notin Kernels) =>
           (raised = "TypeError" /\ kernel_calls = <<>>)
    /\ (op.name = "Initializer" /\ op.arg \in Kernels) =>
           (raised = "none" /\ initializer.exists)
    /\ \A i \in DOMAIN kernel_calls : kernel_calls[i][1] \in Kernels

C2_Witness ==
    /\ op = [name |-> "Initializer", arg |-> "None"]
    /\ raised = "TypeError"
    /\ ~initializer.exists

PriorOverProposal(samples, pdens, i) ==
    FDiv(Exp(KernelLogPrior(Rows(samples)[i])), pdens[i])

SliceStart(total, rank, size) ==
    SumTo(rank, PartitionCounts(total, size))

\* C5 (as claimed): when the samples are a pool of M and each of size ranks
\* calls the from-samples initializer, rank r's population is the contiguous
\* slice of the pool the even split gives it.
C5_RankHoldsItsSlice ==
    (/\ op.name = "init_particles_from_samples"
     /\ Len(args.pdens) = Len(Rows(args.samples))) =>
        LET M == Len(args.pdens)
            count == get_num_particles_in_partition(M, args.rank, args.size)
            start == SliceStart(M, args.rank, args.size)
        IN  IF count = 0 THEN ~particles.exists \/ particles.self._num_particles = 0
            ELSE /\ particles.exists
                 /\ particles.self._params
                        = SubSeq(Rows(args.samples), start + 1, start + count)


\* The particle count the params argument implies
ImpliedCount(params) == Len(params.arrays[1])

\* C6: Particles(...) raises TypeError when params is no dict, and ValueError
\* when the log-likelihoods or the log-weights differ in length from the
\* particle count of params; the checks run in the order params,
\* log-likelihoods, log-weights, a failing one returns no population, and the
\* weights are normalized only when all three passed.
C6_ConstructionErrors ==
    op.name = "Particles" =>
        LET params == args.samples
            N == ImpliedCount(params)
        IN  /\ ~params.is_dict =>
                /\ raised = "TypeError"
                /\ ret = <<"_set_params">>
            /\ (params.is_dict /\ Len(args.log_likes) # N) =>
                /\ raised = "ValueError"
                /\ ret = <<"_set_params", "_set_log_likes">>
            /\ (params.is_dict /\ Len(args.log_likes) = N
                    /\ Len(args.log_weights) # N) =>
                /\ raised = "ValueError"
                /\ ret = <<"_set_params", "_set_log_likes",
                           "_set_and_norm_log_weights">>
            /\ (params.is_dict /\ Len(args.log_likes) = N
                    /\ Len(args.log_weights) = N) =>
                /\ raised = "none"
                /\ particles.exists
                /\ particles.self._num_particles = N
                /\ Len(particles.self._log_likes) = N
                /\ Len(particles.self._log_weights) = N
            /\ raised # "none" =>
                /\ ~particles.exists
                /\ "_normalize_log_weights" \notin Range(ret)

C6_Witness ==
    /\ op.name = "Particles"
    /\ args.samples.is_dict
    /\ Len(args.log_likes) = ImpliedCount(args.samples)
    /\ Len(args.log_weights) = 1
    /\ ImpliedCount(args.samples) = 3
    /\ raised = "ValueError"
    /\ ~particles.exists

\* C7 (as claimed): init_particles_from_samples with a proposal-density vector
\* whose length differs from the number of samples raises ValueError and
\* returns no population.
C7_DensityLengthMismatchRaises ==
    (/\ op.name = "init_particles_from_samples"
     /\ Len(args.pdens) # Len(Rows(args.samples))) =>
        /\ raised = "ValueError"
        /\ ~particles.exists

\* a + c in the log domain (finite operands)
LAdd(a, c) ==
    LET q == Norm(a[2] * c[2], a[3] * c[3])
    IN  <<a[1] + c[1], q[1], q[2]>>

\* The constants added to every raw log-weight: -BIG, ln 3, BIG
Offsets == {<<-1, 1, 1>>, <<0, 3, 1>>, <<1, 1, 1>>}

\* The weights of the population with all three normalization results kept
WeightsOf(log_weights) ==
    LET lw == _normalize_log_weights(log_weights)
    IN  [i \in DOMAIN lw |-> Exp(lw[i])]

\* C8 (as claimed): for finite raw log-weights w of any magnitude, the stored
\* weights are non-negative and sum to 1, the stored log-weights are
\* w - max(w) - log(sum(exp(w - max(w)))), and adding one constant to every
\* raw log-weight leaves the stored weights as they are.
C8_NormalizedLogWeights ==
    (op.name = "Particles" /\ raised = "none") =>
        LET w == args.log_weights
            self == particles.self
            m == LMax(w)
            z == FSum([i \in DOMAIN w |-> Exp(LSub(w[i], m))])
        IN  /\ \A i \in DOMAIN w : FLeq(Zero, self._weights[i])
            /\ FSum(self._weights) = One
            /\ \A i \in DOMAIN w :
                   self._log_weights[i] = LSub(LSub(w[i], m), Log(z))
            /\ \A c \in Offsets :
                   WeightsOf([i \in DOMAIN w |-> LAdd(w[i], c)]) = self._weights

\* What does hold of the stored weights: non-negative, summing to 1, unmoved
\* by a common offset, and each stored log-weight the logarithm of its weight
C8_WeightsNormalized ==
    (op.name = "Particles" /\ raised = "none") =>
        LET w == args.log_weights
            self == particles.self
        IN  /\ \A i \in DOMAIN w : FLeq(Zero, self._weights[i])
            /\ FSum(self._weights) = One
            /\ \A i \in DOMAIN w : self._log_weights[i] = Log(self._weights[i])
            /\ \A c \in Offsets :
                   WeightsOf([i \in DOMAIN w |-> LAdd(w[i], c)]) = self._weights

\* A symmetric matrix of up to two parameters is positive semi-definite when
\* its diagonal is non-negative and a12^2 <= a11 * a22, and positive definite
\* when both are strict
IsPSD(A) ==
    /\ \A a \in DOMAIN A : FLeq(Zero, A[a][a])
    /\ \A a, b \in DOMAIN A :
           a # b => FLeq(FMul(A[a][b], A[a][b]), FMul(A[a][a], A[b][b]))

IsPD(A) ==
    /\ \A a \in DOMAIN A : FLess(Zero, A[a][a])
    /\ \A a, b \in DOMAIN A :
           a # b => FLess(FMul(A[a][b], A[a][b]), FMul(A[a][a], A[b][b]))

IsSymmetric(A) == \A a, b \in DOMAIN A : A[a][b] = A[b][a]

IsRepairOf(A, est) ==
    \A a, b \in DOMAIN A : A[a][b] = IF a = b THEN est[a][a] ELSE Zero

\* The weights are not all on one particle, so the estimate is finite
WeightsSpread(self) == FLess(SumSquaredWeights(self), One)

C10_EssRange ==
    op.name = "compute_ess" =>
        LET self == particles.self
            N == self._num_particles
            squares == [i \in 1..N |-> FMul(self._weights[i], self._weights[i])]
        IN  /\ N >= 1
            /\ FMul(ret, FSum(squares)) = One
            /\ FLeq(One, ret)
            /\ FLeq(ret, Float(N))
            /\ (ret = Float(N)) <=> (\A i \in 1..N : self._weights[i] = <<1, N>>)

C10_Witness ==
    /\ op.name = "compute_ess"
    /\ particles.self._num_particles = 3
    /\ FLess(One, ret)
    /\ FLess(ret, Float(3))

\* The particle count of the population a rank holds after
\* init_particles_from_prior(T): the method reads no rank, so it is the same
\* on each of them
RankLocalCount(self, T, pool) ==
    LET r == init_particles_from_prior(self, T, pool)
    IN  IF r.particles.exists THEN r.particles.self._num_particles ELSE 0

\* C11 (as claimed): when each of size ranks calls init_particles_from_prior
\* with the same total T >= 1, rank r asks the kernel's prior for its
\* partition count get_num_particles_in_partition(T, r) of samples (not T),
\* its population holds that many particles, each raw log-weight is
\* log(1/T), and the rank-local particle counts over all ranks sum to T.
C11_RankRequestsItsPartition ==
    (/\ op.name = "init_particles_from_prior"
     /\ args.num_particles >= 1) =>
        LET T == args.num_particles
            size == args.size
            count == get_num_particles_in_partition(T, args.rank, size)
            held == IF particles.exists THEN particles.self._num_particles ELSE 0
            local == [r \in 1..size |->
                         RankLocalCount(initializer, T, args.samples)]
        IN  /\ kernel_calls[1] = <<"kernel", "sample_from_prior", count>>
            /\ held = count
            /\ \A i \in DOMAIN ret : ret[i] = Log(Norm(1, T))
            /\ SumTo(size, local) = T


\* The population holds arrays of one length N, and weights that are the
\* ones normalized from the log-weights it was constructed with
PopulationConsistent ==
    particles.exists =>
        LET self == particles.self
            N == self._num_particles
        IN  /\ N = ImpliedCount(args.samples)
            /\ Len(self._params) = N
            /\ Len(self._log_likes) = N
            /\ Len(self._log_weights) = N
            /\ Len(self._weights) = N
            /\ self._param_names = args.samples.names
            /\ self._params = Rows(args.samples)
            /\ self._log_likes = args.log_likes
            /\ self._log_weights = _normalize_log_weights(args.log_weights)
            /\ self._weights = WeightsOf(args.log_weights)

\* No step changes a constructed population
PopulationUnchanged == particles.exists => particles' = particles

\* C12: once a population is constructed, every call of compute_ess,
\* compute_mean, compute_variance, compute_std_dev, compute_covariance and
\* copy (with or without package=False where the method takes it) leaves its
\* particle count, parameter names, parameter values, log-likelihoods,
\* log-weights and weights as they were; in every reachable state the arrays
\* have the same length N and the weights are those normalized at
\* construction.
C12_PopulationImmutable ==
    /\ []PopulationConsistent
    /\ [][PopulationUnchanged]_vars

\* The standard deviations 0 and sqrt(2/5) = (1/5) * sqrt(10) of two
\* parameters came back unpackaged from a population of three unevenly
\* weighted particles, which is still as it was constructed
C12_Witness ==
    /\ op = [name |-> "compute_std_dev", arg |-> "False"]
    /\ particles.exists
    /\ particles.self._num_particles = 3
    /\ particles.self._weights = <<<<1, 4>>, <<1, 2>>, <<1, 4>>>>
    /\ particles.self._weights = WeightsOf(args.log_weights)
    /\ particles.self._params = Rows(args.samples)
    /\ args.samples.arrays = <<<<0, 0, 0>>, <<0, 1, 0>>>>
    /\ ret = <<<<0, 1, 1>>, <<1, 5, 10>>>>


=============================================================================
